---- MODULE Spec2Model ----
(***************************************************************************)
(* Scout lifecycle and payment-gated execution pipeline of scout-surf.     *)
(*                                                                         *)
(* State: the scout record store, the browser-automation provider's        *)
(* sessions and tasks, the wall clock, the environment secrets, the        *)
(* in-flight status-refresh handler invocations and the last response of   *)
(* the other HTTP operations.                                              *)
(*                                                                         *)
(* A JavaScript object is a function whose domain is the set of keys that  *)
(* are defined; an undefined property is a key outside the domain.         *)
(***************************************************************************)
EXTENDS Integers, Sequences, FiniteSets, TLC

VARIABLES store, sessions, now, env, calls, resp, last, seen, mail, payClient, auth, poller

vars == <<store, sessions, now, env, calls, resp, last, seen, mail, payClient, auth, poller>>

(***************************************************************************)
(* Bounds of the model                                                     *)
(***************************************************************************)
MaxScouts == 1
MaxSessions == 1
MaxCalls == 2
MaxClock == 1

(***************************************************************************)
(* Program constants                                                       *)
(***************************************************************************)
MaxNameLen == 100

STANDARD_STATUS_CODES_Faulty ==
  [SUCCESS |-> 200, BAD_REQUEST |-> 400, UNAUTHORIZED |-> 401,
   NOT_FOUND |-> 404, INTERNAL_ERROR |-> 503]

STANDARD_STATUS_CODES ==
  [SUCCESS |-> 200, BAD_REQUEST |-> 400, UNAUTHORIZED |-> 401,
   NOT_FOUND |-> 404, INTERNAL_ERROR |-> 500]

PAYMENT_REQUIRED == 402
PREFLIGHT_OK == 204
PREFLIGHT_FAILED == 403

CreatePath == "/api/scouts/create"
StatusPath == "/api/scouts/:scoutId/status"
HealthPath == "/health"
RootPath == "/"
McpPath == "/api/mcp"

(***************************************************************************)
(* Data the inputs are drawn from                                          *)
(***************************************************************************)
RECURSIVE Rep(_)
Rep(n) == IF n = 0 THEN "" ELSE "x" \o Rep(n - 1)

Names == {"", "Price Watch", Rep(MaxNameLen + 1)}
InstructionTexts == {"", "check iphone price"}
ResultActions == {"", "email me the price"}
Outputs == {"", "Price: $799"}
TaskStatuses == {"finished", "failed", "error"}
StepLists == {<<>>, <<"", "https://shots/step1.png">>}
Texts == {"sent", "done"}
Payments == {"none", "rejected", "verified"}
Methods == {"GET", "POST", "OPTIONS"}
ScoutIdOf(k) == "scout_" \o ToString(k)
ScoutIdPool == {ScoutIdOf(k) : k \in 1..MaxScouts}
SessionIdOf(k) == "session_" \o ToString(k)
LiveUrlOf(k) == "https://live.browser-use.com/" \o ToString(k)

(***************************************************************************)
(* JavaScript object helpers                                               *)
(***************************************************************************)
Has(o, k) == k \in DOMAIN o

\* { k: v } when v is defined, {} otherwise
Prop(k, v, defined) == IF defined THEN (k :> v) ELSE <<>>

\* a string property read in a boolean context: undefined and '' are falsy
Truthy(o, k) == Has(o, k) /\ o[k] # ""

\* the projection { k: o.k } for the keys ks, undefined properties dropped
Pick(o, ks) == [k \in (ks \cap DOMAIN o) |-> o[k]]

\* { ...o, ...u }
Merge(o, u) == [k \in (DOMAIN o \cup DOMAIN u) |-> IF k \in DOMAIN u THEN u[k] ELSE o[k]]

(***************************************************************************)
(* Record store adapter (setScouts / getScouts / updateScouts)             *)
(***************************************************************************)
StoreOutcomes == {"ok", "false", "throw"}

setScouts(st, id, data, oc) == IF oc = "ok" THEN (id :> data) @@ st ELSE st

Found(st, id) == id \in DOMAIN st

getScouts(st, id) == Merge(st[id], [id |-> id])

updateScouts(st, id, upd, oc) ==
  IF oc = "ok" /\ Found(st, id)
    THEN [st EXCEPT ![id] = Merge(st[id], upd)]
    ELSE st

(***************************************************************************)
(* Browser-automation provider                                             *)
(***************************************************************************)
CallOutcomes == {"ok", "nonok", "throw"}

FutureActionNote == " IMPORTANT NOTE FOR BROWSER AGENT: FUTURE action, do NOT perform: "

NewTask(sid, prompt) ==
  [id |-> "task_" \o sid, sessionId |-> sid, task |-> prompt, status |-> "started",
   output |-> "", steps |-> <<>>, finished |-> FALSE]

NextSessionNo(sess) == Cardinality(DOMAIN sess) + 1

\* POST /api/v2/sessions answered OK: a new session without tasks
ProviderCreateSession(sess) ==
  (SessionIdOf(NextSessionNo(sess)) :> [liveUrl |-> LiveUrlOf(NextSessionNo(sess)), tasks |-> <<>>]) @@ sess

\* POST /api/v2/tasks answered OK: the task is appended to the session
ProviderCreateTask(sess, sid, prompt) ==
  [sess EXCEPT ![sid].tasks = Append(@, NewTask(sid, prompt))]

\* the body of an OK answer to POST /api/v2/sessions, read unchecked as a
\* BrowserUseSessionResponse: the provider's JSON may or may not carry liveUrl
SessionPayloads == {"ok", "ok_noLiveUrl"}

SessionResponse(sess, payload) ==
  [id |-> SessionIdOf(NextSessionNo(sess)), status |-> "active"]
    @@ Prop("liveUrl", LiveUrlOf(NextSessionNo(sess)), payload = "ok")

(***************************************************************************)
(* Standard responses (api-response.ts)                                    *)
(***************************************************************************)
sendSuccess(data, status) == [code |-> status, success |-> TRUE, data |-> data]

sendError(errCode, message, status) ==
  [code |-> status, success |-> FALSE, error |-> [code |-> errCode, message |-> message]]

badRequest(message) == sendError("VALIDATION_ERROR", message, STANDARD_STATUS_CODES.BAD_REQUEST)

notFound_AsInternal(message) ==
  sendError("INTERNAL_ERROR", message, STANDARD_STATUS_CODES.INTERNAL_ERROR)

notFound(message) == sendError("RESOURCE_NOT_FOUND", message, STANDARD_STATUS_CODES.NOT_FOUND)

internal(message) == sendError("INTERNAL_ERROR", message, STANDARD_STATUS_CODES.INTERNAL_ERROR)

(***************************************************************************)
(* POST /api/scouts/create : createScoutHandler                            *)
(***************************************************************************)
Absent == "<absent>"

GoodName == "Price Watch"
GoodInstructions == "check iphone price"

\* request bodies: a well-formed one, and each field missing or out of range
Bodies ==
  { Prop("name", n, n # Absent) @@ Prop("instructions", i, i # Absent)
      @@ Prop("resultAction", r, r # Absent) :
    n \in Names \cup {Absent}, i \in {GoodInstructions}, r \in ResultActions \cup {Absent} }
  \cup
  { Prop("name", n, n # Absent) @@ Prop("instructions", i, i # Absent)
      @@ Prop("resultAction", r, r # Absent) :
    n \in {GoodName}, i \in InstructionTexts \cup {Absent}, r \in ResultActions \cup {Absent} }

\* the outcomes of session creation, task creation and setScouts; a call that
\* is never made has the outcome "-"
CreateOutcomes ==
  { [session |-> s, task |-> "-", store |-> "-"] : s \in {"nonok", "throw"} }
    \cup { [session |-> "ok", task |-> t, store |-> "-"] : t \in {"nonok", "throw"} }
    \cup { [session |-> "ok", task |-> "ok", store |-> w] : w \in StoreOutcomes }
    \cup { [session |-> "ok_noLiveUrl", task |-> "ok", store |-> "ok"] }

\* CreateScoutRequestSchema.safeParse(body).success
CreateScoutRequestSchema(body) ==
  /\ Has(body, "name") /\ Len(body.name) >= 1 /\ Len(body.name) <= MaxNameLen
  /\ Has(body, "instructions") /\ Len(body.instructions) >= 1

\* resultAction || ''
ResultActionOrEmpty(body) == IF Truthy(body, "resultAction") THEN body.resultAction ELSE ""

TaskPrompt(body) ==
  IF Truthy(body, "resultAction")
    THEN body.instructions \o FutureActionNote \o body.resultAction
    ELSE body.instructions

\* the scout record written by create
ScoutData(body, wallet, sessionData, startedAt) ==
  [userId |-> wallet, name |-> body.name, instructions |-> body.instructions,
   resultAction |-> ResultActionOrEmpty(body), status |-> "pending",
   sessionId |-> sessionData.id, startedAt |-> startedAt]
    @@ Pick(sessionData, {"liveUrl"})

\* task creation did not succeed: the handler returns before persisting
TaskCreationFailed(oc) == oc.task # "ok"

\* if (!success): setScouts resolved false
SaveFailed_Ignored(oc) == FALSE

SaveFailed(oc) == oc.store # "ok"

\* the first step of create that fails under the outcomes oc
FailedStep(oc) ==
  IF oc.session \notin SessionPayloads THEN "session"
  ELSE IF oc.task # "ok" THEN "task"
  ELSE IF oc.store # "ok" THEN "store"
  ELSE "none"

\* The handler's result: the response and the store and provider it leaves.
\* invalid marks a response produced by a validation check.
createScoutHandler(req, st, sess, t, e, oc) ==
  LET base == [store |-> st, sessions |-> sess, invalid |-> FALSE, handler |-> "createScoutHandler"]
      sessionData == SessionResponse(sess, oc.session)
      sess1 == ProviderCreateSession(sess)
      sess2 == IF oc.task = "ok"
                 THEN ProviderCreateTask(sess1, sessionData.id, TaskPrompt(req.body))
                 ELSE sess1
      scoutId == ScoutIdOf(Cardinality(DOMAIN st) + 1)
      scoutData == ScoutData(req.body, req.wallet, sessionData, t)
  IN
  IF ~req.parsable
    THEN Merge(base, [resp |-> internal("Failed to create scout")])
  ELSE IF ~CreateScoutRequestSchema(req.body)
    THEN Merge(base, [resp |-> badRequest("Invalid request"), invalid |-> TRUE])
  ELSE IF req.wallet = ""
    THEN Merge(base, [resp |-> badRequest("X-Wallet-Address header is required"), invalid |-> TRUE])
  ELSE IF ~e.BROWSER_USE_API_KEY
    THEN Merge(base, [resp |-> internal("Server configuration error")])
  ELSE IF oc.session \notin SessionPayloads
    THEN Merge(base, [resp |-> internal("Failed to create browser session")])
  ELSE IF TaskCreationFailed(oc)
    THEN Merge(base, [resp |-> internal("Failed to create browser task"), sessions |-> sess1])
  ELSE IF oc.store = "throw"
    THEN Merge(base, [resp |-> internal("Failed to create scout"), sessions |-> sess2])
  ELSE IF SaveFailed(oc)
    THEN Merge(base, [resp |-> internal("Failed to save scout to database"), sessions |-> sess2])
  ELSE Merge(base,
         [resp |-> sendSuccess(
                     Merge([scoutId |-> scoutId],
                           Pick(scoutData, {"name", "instructions", "resultAction", "status",
                                            "sessionId", "liveUrl", "startedAt"})),
                     STANDARD_STATUS_CODES.SUCCESS),
          store |-> setScouts(st, scoutId, scoutData, oc.store),
          sessions |-> sess2])

(***************************************************************************)
(* Middleware in front of the routes (index.ts)                            *)
(***************************************************************************)
\* corsMiddleware: a preflight is answered here, anything else goes on
corsMiddleware(req) ==
  IF req.method = "OPTIONS"
    THEN [next |-> FALSE,
          resp |-> IF req.origin THEN [code |-> PREFLIGHT_OK]
                   ELSE [code |-> PREFLIGHT_FAILED, text |-> "CORS preflight failed"]]
    ELSE [next |-> TRUE, resp |-> <<>>]

\* the routes the payment gate applies to
X402Applies_Never(path, method) == FALSE

X402Applies(path, method) == path = CreatePath /\ method = "POST"

\* x402Middleware: the faremeter middleware answers 402 or calls next()
x402Middleware(req) ==
  IF ~X402Applies(req.path, req.method)
    THEN [next |-> TRUE, resp |-> <<>>]
  ELSE IF req.payment = "verified"
    THEN [next |-> TRUE, resp |-> <<>>]
    ELSE [next |-> FALSE, resp |-> [code |-> PAYMENT_REQUIRED]]

\* registerRoutes: the handler registered for a method and path
Route(method, path) ==
  IF method = "GET" /\ path = HealthPath THEN "healthHandler"
  ELSE IF method = "POST" /\ path = CreatePath THEN "createScoutHandler"
  ELSE IF method = "GET" /\ path = StatusPath THEN "scoutStatusHandler"
  ELSE IF method = "POST" /\ path = McpPath THEN "mcpHandler"
  ELSE IF method = "GET" /\ path = RootPath THEN "root"
  ELSE "none"

\* the middleware chain: the response of the middleware that answers, or next
Middleware(req) ==
  IF ~corsMiddleware(req).next
    THEN [next |-> FALSE, producer |-> "corsMiddleware", resp |-> corsMiddleware(req).resp]
  ELSE IF ~x402Middleware(req).next
    THEN [next |-> FALSE, producer |-> "x402Middleware", resp |-> x402Middleware(req).resp]
  ELSE [next |-> TRUE, producer |-> "none", resp |-> <<>>]

\* a request to the create route through the whole application
CreateApp(req, st, sess, t, e, oc) ==
  IF ~Middleware(req).next
    THEN [store |-> st, sessions |-> sess, invalid |-> FALSE,
          handler |-> Middleware(req).producer, resp |-> Middleware(req).resp]
    ELSE createScoutHandler(req, st, sess, t, e, oc)

CreateRequests ==
  [method : {"POST"}, path : {CreatePath}, origin : {FALSE}, payment : Payments,
   parsable : {TRUE}, body : Bodies, wallet : {"Wallet1"}]
  \cup
  [method : {"POST"}, path : {CreatePath}, origin : {FALSE}, payment : Payments,
   parsable : BOOLEAN, body : {[name |-> GoodName, instructions |-> GoodInstructions]},
   wallet : {"", "Wallet1"}]

\* the provider and the store are asked only by a request that passes validation
PassesValidation(req) ==
  req.parsable /\ CreateScoutRequestSchema(req.body) /\ req.wallet # ""

NoCalls == [session |-> "nonok", task |-> "-", store |-> "-"]

CreateInputs ==
  { <<req, oc>> \in CreateRequests \X CreateOutcomes : PassesValidation(req) \/ oc = NoCalls }

\* The last response of the create, tool and miscellaneous requests, with what
\* the request was: op the operation asked for, handler the code that
\* answered, createRan whether createScoutHandler ran, payment whether the gate
\* saw a verified payment, invalid whether a validation check answered,
\* wrote whether a scout record was written, healthy whether every external
\* call of the request succeeded, failure the first of session creation, task
\* creation and persistence that fails for this request.
NoResp ==
  [surface |-> "none", op |-> "none", handler |-> "none", createRan |-> FALSE,
   payment |-> "none", invalid |-> FALSE, wrote |-> FALSE, validArgs |-> FALSE,
   healthy |-> FALSE, failure |-> "none", resp |-> <<>>]

(***************************************************************************)
(* Agent tool surface (mcp-server.ts, mcpHandler)                          *)
(***************************************************************************)
McpMethods == {"tools/list", "tools/call", "resources/list"}
PayClientOutcomes == {"ok", "initfail", "payfail"}

McpArguments ==
  { Prop("name", n, n # Absent) @@ Prop("instructions", i, i # Absent)
      @@ Prop("resultAction", r, r # Absent) @@ Prop("authToken", a, a # Absent) :
    n \in {Absent, GoodName, Rep(MaxNameLen), Rep(MaxNameLen + 1)},
    i \in {Absent, GoodInstructions},
    r \in {Absent, "email me the price"},
    a \in {Absent, "jwt"} }

\* createScout's own argument checks pass
CreateScoutArgsValid(args) ==
  /\ Truthy(args, "name") /\ Len(args.name) >= 1 /\ Len(args.name) <= MaxNameLen
  /\ Truthy(args, "instructions") /\ Len(args.instructions) >= 1
  /\ Truthy(args, "authToken")

\* the request createScout sends: Content-Type and Authorization headers only
McpCreateRequest(args) ==
  [method |-> "POST", path |-> CreatePath, origin |-> FALSE, payment |-> "none",
   parsable |-> TRUE, body |-> Pick(args, {"name", "instructions", "resultAction"}),
   wallet |-> ""]

\* wrap(fetch, handlers): on a 402 the handler pays and the request is sent
\* once more with the proof of payment
PaidRetry(first, paid, pay) ==
  IF first.resp.code = PAYMENT_REQUIRED /\ pay = "ok"
    THEN Merge(paid, [settled |-> TRUE])
    ELSE Merge(first, [settled |-> FALSE])

payingFetch(req, pay, st, sess, t, e, oc) ==
  PaidRetry(CreateApp(req, st, sess, t, e, oc),
            CreateApp([req EXCEPT !.payment = "verified"], st, sess, t, e, oc), pay)

\* createScout: threw is an exception, data the value returned
createScoutResult(args, pay, st, sess, r) ==
  LET base == [threw |-> TRUE, invalid |-> FALSE, settled |-> FALSE, createRan |-> FALSE,
               store |-> st, sessions |-> sess, message |-> "", data |-> <<>>]
      after == [settled |-> r.settled, createRan |-> r.handler = "createScoutHandler",
                store |-> r.store, sessions |-> r.sessions]
  IN
  IF ~(Truthy(args, "name") /\ Len(args.name) >= 1 /\ Len(args.name) <= MaxNameLen)
    THEN Merge(base, [invalid |-> TRUE, message |-> "Scout name must be 1-100 characters"])
  ELSE IF ~(Truthy(args, "instructions") /\ Len(args.instructions) >= 1)
    THEN Merge(base, [invalid |-> TRUE, message |-> "Instructions are required"])
  ELSE IF ~Truthy(args, "authToken")
    THEN Merge(base, [invalid |-> TRUE, message |-> "Authentication token is required"])
  ELSE IF pay = "initfail"
    THEN Merge(base, [message |-> "Failed to initialize MCP payment client"])
  ELSE IF r.resp.code # STANDARD_STATUS_CODES.SUCCESS
    THEN Merge(Merge(base, after),
               [invalid |-> r.invalid,
                message |-> "Failed to create scout: " \o ToString(r.resp.code)])
  ELSE Merge(Merge(base, after), [threw |-> FALSE, data |-> r.resp])

createScout(args, pay, st, sess, t, e, oc) ==
  createScoutResult(args, pay, st, sess,
                    payingFetch(McpCreateRequest(args), pay, st, sess, t, e, oc))

\* handleCallTool: the tool's result, or isError with the text of
\* JSON.stringify({ error: errorMessage, tool: name, arguments: args }), kept
\* here as the sequence of the three members that text spells out
\* (get_scout_status with both arguments sends the GET that RefreshStart
\* answers; here are its argument failures)
CallToolResult(name, args, st, sess, r) ==
  LET base == [isError |-> TRUE, invalid |-> FALSE, settled |-> FALSE, createRan |-> FALSE,
               store |-> st, sessions |-> sess,
               text |-> <<"Unknown tool: " \o name, name, Pick(args, DOMAIN args)>>]
  IN
  IF name = "create_scout"
    THEN Merge(base, [isError |-> r.threw, invalid |-> r.invalid, settled |-> r.settled,
                      createRan |-> r.createRan, store |-> r.store, sessions |-> r.sessions,
                      text |-> IF r.threw THEN [base.text EXCEPT ![1] = r.message]
                                          ELSE <<"created">>])
  ELSE IF name = "get_scout_status"
    THEN Merge(base, [invalid |-> TRUE,
                      text |-> [base.text EXCEPT ![1] =
                                  IF Truthy(args, "scoutId") THEN "Authentication token is required"
                                                             ELSE "Scout ID is required"]])
  ELSE base

handleCallTool(name, args, pay, st, sess, t, e, oc) ==
  CallToolResult(name, args, st, sess, createScout(args, pay, st, sess, t, e, oc))

\* mcpHandler: the HTTP response of POST /api/mcp
McpResponse(body, st, sess, r) ==
  LET base == [invalid |-> FALSE, settled |-> FALSE, createRan |-> FALSE,
               store |-> st, sessions |-> sess]
  IN
  IF body.method \notin {"tools/list", "tools/call"}
    THEN Merge(base, [invalid |-> TRUE, resp |-> badRequest("Invalid MCP request")])
  ELSE IF body.method = "tools/list"
    THEN Merge(base, [resp |-> sendSuccess([tools |-> {"create_scout", "get_scout_status"}],
                                           STANDARD_STATUS_CODES.SUCCESS)])
  ELSE IF ~Truthy(body.params, "name")
    THEN Merge(base, [invalid |-> TRUE,
                      resp |-> badRequest("Tool name is required for tools/call")])
  ELSE IF r.isError
    THEN Merge(Pick(r, {"invalid", "settled", "createRan", "store", "sessions"}),
               [resp |-> internal(r.text)])
  ELSE Merge(Pick(r, {"invalid", "settled", "createRan", "store", "sessions"}),
             [resp |-> sendSuccess([content |-> r.text], STANDARD_STATUS_CODES.SUCCESS)])

mcpHandler(body, pay, st, sess, t, e, oc) ==
  McpResponse(body, st, sess,
              handleCallTool(body.params.name, body.params.arguments, pay, st, sess, t, e, oc))

McpBodies ==
  { [method |-> m, params |-> [arguments |-> <<>>]] : m \in McpMethods }
  \cup
  { [method |-> "tools/call", params |-> [name |-> n, arguments |-> <<>>]] :
    n \in {"get_scout_status", "run_scout"} }
  \cup
  { [method |-> "tools/call", params |-> [name |-> "create_scout", arguments |-> a]] :
    a \in McpArguments }

\* createScout sends its request only when its own argument checks pass
McpInputs ==
  { <<body, pay, oc>> \in McpBodies \X PayClientOutcomes \X CreateOutcomes :
      \/ /\ Truthy(body.params, "name")
         /\ body.params.name = "create_scout"
         /\ CreateScoutArgsValid(body.params.arguments)
         /\ pay = "ok" \/ oc = NoCalls
      \/ pay = "ok" /\ oc = NoCalls }

(***************************************************************************)
(* GET /api/scouts/:scoutId/status : scoutStatusHandler                    *)
(***************************************************************************)
Terminal == {"completed", "error"}

\* a refresh invocation and its locals
IdleCall ==
  [pc |-> "idle", scoutId |-> "", scout |-> <<>>, task |-> <<>>, screenshots |-> <<>>,
   finalResult |-> "", ranLLM |-> FALSE, llm |-> "none", detail |-> "none", nProv |-> 0,
   nWrite |-> 0]

\* the response object built from the scout that was read
ScoutResponse(scout, keys) == Merge([scoutId |-> scout.id], Pick(scout, keys))

NoSessionKeys ==
  {"name", "instructions", "resultAction", "status", "result", "error", "startedAt",
   "completedAt"}

PersistedKeys == NoSessionKeys \cup {"sessionId", "liveUrl"}

RunningKeys == {"name", "instructions", "resultAction", "sessionId", "liveUrl", "startedAt"}

\* the response of the provider-failure fallback
FallbackResponse_MarksError(scout) ==
  Merge(ScoutResponse(scout, PersistedKeys), [status |-> "error", error |-> "provider unreachable"])

FallbackResponse(scout) == ScoutResponse(scout, PersistedKeys)

\* firstTask && firstTask.finishedAt
IsCompleted(tasks) == Len(tasks) > 0 /\ tasks[1].finished

\* (taskDetail.steps || []).map(step => step.screenshotUrl).filter(url => !!url)
IsUrl(u) == u # ""

ScreenshotsOf(steps) == SelectSeq(steps, IsUrl)

Screenshots_IgnoringFailure(task, detailOc) == ScreenshotsOf(task.steps)

\* let screenshots = []; filled only when the task-detail call answers OK
Screenshots(task, detailOc) == IF detailOc = "ok" THEN ScreenshotsOf(task.steps) ELSE <<>>

\* JSON.stringify(screenshots)
RECURSIVE JoinUrls(_)
JoinUrls(urls) ==
  IF Len(urls) = 0 THEN ""
  ELSE IF Len(urls) = 1 THEN "\"" \o urls[1] \o "\""
  ELSE "\"" \o urls[1] \o "\"," \o JoinUrls(Tail(urls))

JSONstringify(urls) == "[" \o JoinUrls(urls) \o "]"

TaskSucceeded_FailedOnly(status) == status # "failed"

TaskSucceeded(status) == status # "failed" /\ status # "error"

\* the text stored when the Result Processor answered
CombinedResult(taskOutput, text) ==
  "=== Browser Run Output === " \o taskOutput \o " === Result Action Processing === " \o text

\* taskOutput || 'Task failed'
ErrorText_Raw(taskOutput) == taskOutput

ErrorText(taskOutput) == IF taskOutput # "" THEN taskOutput ELSE "Task failed"

LlmOutcomes == Texts \cup {"throw"}

\* the Result Processor runs: the task succeeded and resultAction is set
ProcessesResult(scout, task) == TaskSucceeded(task.status) /\ Truthy(scout, "resultAction")

\* generateText is reached
CallsLlm(scout, task, e) == ProcessesResult(scout, task) /\ e.OPENAI_API_KEY

FinalResult_NoFallback(scout, task, e, llm) ==
  IF CallsLlm(scout, task, e)
    THEN CombinedResult(task.output, llm)
    ELSE task.output

FinalResult(scout, task, e, llm) ==
  IF CallsLlm(scout, task, e) /\ llm # "throw"
    THEN CombinedResult(task.output, llm)
    ELSE task.output

UpdateData_Restarting(task, finalResult, screenshots, completedAt) ==
  [status |-> "completed", result |-> finalResult, completedAt |-> completedAt,
   startedAt |-> completedAt]

\* updateData
UpdateData(task, finalResult, screenshots, completedAt) ==
  (IF TaskSucceeded(task.status)
     THEN [status |-> "completed", result |-> finalResult, completedAt |-> completedAt]
     ELSE [status |-> "error", error |-> ErrorText(task.output), completedAt |-> completedAt])
  @@ Prop("screenshots", JSONstringify(screenshots), Len(screenshots) > 0)

\* the response after the terminal write
TerminalResponse(scout, task, finalResult, screenshots, completedAt) ==
  Merge(ScoutResponse(scout, RunningKeys),
        (IF TaskSucceeded(task.status)
           THEN [status |-> "completed", result |-> finalResult, completedAt |-> completedAt]
           ELSE [status |-> "error", error |-> ErrorText(task.output), completedAt |-> completedAt])
        @@ Prop("screenshots", screenshots, Len(screenshots) > 0))

StatusRequest == [method |-> "GET", path |-> StatusPath, origin |-> FALSE, payment |-> "none"]

\* no status response was sent by the last step
NoLast ==
  [call |-> 0, scoutId |-> "", branch |-> "none", read |-> <<>>, resp |-> <<>>,
   nProv |-> 0, nWrite |-> 0, wrote |-> FALSE, task |-> <<>>, llm |-> "none",
   detail |-> "none"]

\* The status response sent by the step just taken: the call, the path taken
\* through the handler, the record as the call read it, the response, the
\* provider calls and store writes the call made, whether this step changed
\* the store, the finished task the call saw, what generateText did and
\* whether the task-detail call answered.
Sent(c, call, branch, r, wrote) ==
  [call |-> c, scoutId |-> call.scoutId, branch |-> branch, read |-> call.scout, resp |-> r,
   nProv |-> call.nProv, nWrite |-> call.nWrite, wrote |-> wrote, task |-> call.task,
   llm |-> call.llm, detail |-> call.detail]

\* the first early-return response seen for each terminal scout
NotSeen == [set |-> FALSE, data |-> <<>>]

ResultFields == {"result", "error", "screenshots", "completedAt"}

Remember(sn, l) ==
  IF l.branch = "terminal" /\ ~sn[l.scoutId].set
    THEN [sn EXCEPT ![l.scoutId] = [set |-> TRUE, data |-> Pick(l.resp.data, ResultFields)]]
    ELSE sn

\* The handler up to its first provider call. returns: an early return
\* answers at once; otherwise the call goes on with the record it read.
statusHandlerStart(st, e, id, readOc) ==
  LET scout == getScouts(st, id)
      ret(branch, r, sc) == [returns |-> TRUE, branch |-> branch, resp |-> r, scout |-> sc]
  IN
  IF ~Middleware(StatusRequest).next
    THEN ret(Middleware(StatusRequest).producer, Middleware(StatusRequest).resp, <<>>)
  ELSE IF readOc = "throw"
    THEN ret("crash", internal("Failed to check scout status"), <<>>)
  ELSE IF ~Found(st, id)
    THEN ret("notfound", notFound("Scout not found"), <<>>)
  ELSE IF ~Truthy(scout, "sessionId")
    THEN ret("nosession",
             sendSuccess(ScoutResponse(scout, NoSessionKeys), STANDARD_STATUS_CODES.SUCCESS), scout)
  ELSE IF scout.status \in Terminal
    THEN ret("terminal",
             sendSuccess(ScoutResponse(scout, PersistedKeys), STANDARD_STATUS_CODES.SUCCESS), scout)
  ELSE IF ~e.BROWSER_USE_API_KEY
    THEN ret("nokey", internal("Server configuration error"), scout)
  ELSE [returns |-> FALSE, branch |-> "", resp |-> <<>>, scout |-> scout]

RefreshStart(c, id, readOc) ==
  /\ calls[c].pc = "idle"
  /\ \A d \in 1..(c - 1) : calls[d].pc # "idle"
  /\ LET r == statusHandlerStart(store, env, id, readOc)
         call == [IdleCall EXCEPT !.scoutId = id, !.scout = r.scout]
     IN IF r.returns
          THEN /\ calls' = [calls EXCEPT ![c] = IdleCall]
               /\ last' = Sent(c, call, r.branch, r.resp, FALSE)
               /\ seen' = Remember(seen, last')
          ELSE /\ calls' = [calls EXCEPT ![c] = [call EXCEPT !.pc = "fetch"]]
               /\ last' = NoLast
               /\ seen' = seen
  /\ UNCHANGED <<store, sessions, now, env, mail, payClient, auth, resp>>

NeedsRunningWrite_Always(scout) == TRUE

\* scout.status !== 'running'
NeedsRunningWrite(scout) == scout.status # "running"

\* The session-status call and, for a finished task, the task-detail call and
\* the Result Processor: everything between reading the record and writing it.
statusHandlerFetch(call0, sess, e, oc, detailOc, llm) ==
  LET call == [call0 EXCEPT !.nProv = @ + 1]
      scout == call.scout
      tasks == sess[scout.sessionId].tasks
      task == tasks[1]
      shots == Screenshots(task, detailOc)
  IN
  IF oc # "ok"
    THEN [returns |-> TRUE, branch |-> "fallback", call |-> call,
          resp |-> sendSuccess(FallbackResponse(scout), STANDARD_STATUS_CODES.SUCCESS)]
  ELSE IF ~IsCompleted(tasks)
    THEN IF NeedsRunningWrite(scout)
           THEN [returns |-> FALSE, branch |-> "", resp |-> <<>>,
                 call |-> [call EXCEPT !.pc = "writeRunning"]]
           ELSE [returns |-> TRUE, branch |-> "running", call |-> call,
                 resp |-> sendSuccess(Merge(ScoutResponse(scout, RunningKeys), [status |-> "running"]),
                                      STANDARD_STATUS_CODES.SUCCESS)]
  ELSE [returns |-> FALSE, branch |-> "", resp |-> <<>>,
        call |-> [call EXCEPT !.pc = "writeTerminal", !.nProv = @ + 1, !.task = task,
                              !.screenshots = shots,
                              !.detail = IF detailOc = "ok" THEN "ok" ELSE "failed",
                              !.ranLLM = CallsLlm(scout, task, e),
                              !.llm = IF CallsLlm(scout, task, e) THEN llm ELSE "none",
                              !.finalResult = FinalResult(scout, task, e, llm)]]

RefreshFetch(c, oc, detailOc, llm) ==
  /\ calls[c].pc = "fetch"
  /\ LET r == statusHandlerFetch(calls[c], sessions, env, oc, detailOc, llm)
     IN IF r.returns
          THEN /\ calls' = [calls EXCEPT ![c] = IdleCall]
               /\ last' = Sent(c, r.call, r.branch, r.resp, FALSE)
          ELSE /\ calls' = [calls EXCEPT ![c] = r.call]
               /\ last' = NoLast
  /\ UNCHANGED <<store, sessions, now, env, mail, payClient, auth, resp, seen>>

\* updateScouts(scoutId, { status: 'running' }) and the running response
RefreshWriteRunning(c, writeOc) ==
  /\ calls[c].pc = "writeRunning"
  /\ LET call == [calls[c] EXCEPT !.nWrite = @ + 1]
     IN /\ store' = updateScouts(store, call.scoutId, [status |-> "running"], writeOc)
        /\ calls' = [calls EXCEPT ![c] = IdleCall]
        /\ last' =
             IF writeOc = "throw"
               THEN Sent(c, call, "crash", internal("Failed to check scout status"), FALSE)
               ELSE Sent(c, call, "running",
                         sendSuccess(Merge(ScoutResponse(call.scout, RunningKeys), [status |-> "running"]),
                                     STANDARD_STATUS_CODES.SUCCESS),
                         store' # store)
  /\ UNCHANGED <<sessions, now, env, mail, payClient, auth, resp, seen>>

\* updateScouts(scoutId, updateData) and the terminal response
RefreshWriteTerminal(c, writeOc) ==
  /\ calls[c].pc = "writeTerminal"
  /\ LET call == [calls[c] EXCEPT !.nWrite = @ + 1]
     IN /\ store' = updateScouts(store, call.scoutId,
                                 UpdateData(call.task, call.finalResult, call.screenshots, now),
                                 writeOc)
        /\ calls' = [calls EXCEPT ![c] = IdleCall]
        /\ last' =
             IF writeOc = "throw"
               THEN Sent(c, call, "crash", internal("Failed to check scout status"), FALSE)
               ELSE Sent(c, call, "finished",
                         sendSuccess(TerminalResponse(call.scout, call.task, call.finalResult,
                                                      call.screenshots, now),
                                     STANDARD_STATUS_CODES.SUCCESS),
                         store' # store)
  /\ UNCHANGED <<sessions, now, env, mail, payClient, auth, resp, seen>>

\* An awaited provider or Result Processor call of a refresh never settles: fetch and
\* generateText are given no signal or timeout, so the handler stays at its await
RefreshBlocked ==
  \E c \in 1..MaxCalls :
    /\ calls[c].pc = "fetch"
    /\ calls' = [calls EXCEPT ![c].pc = "blocked"]
    /\ last' = NoLast
    /\ UNCHANGED <<store, sessions, now, env, mail, payClient, auth, resp, seen, poller>>

(***************************************************************************)
(* Remaining routes                                                        *)
(***************************************************************************)
healthHandler(ok) ==
  IF ok THEN sendSuccess([status |-> "healthy"], STANDARD_STATUS_CODES.SUCCESS)
        ELSE internal("Health check failed")

OtherPaths == {CreatePath, HealthPath, RootPath, "/api/unknown"}

OtherRequests ==
  { r \in [method : Methods, path : OtherPaths, origin : BOOLEAN, payment : {"none"}] :
      r.method = "OPTIONS"
        \/ Route(r.method, r.path) \notin {"createScoutHandler", "scoutStatusHandler", "mcpHandler"} }

AllHealthy(oc, pay) == oc.session = "ok" /\ oc.task = "ok" /\ oc.store = "ok" /\ pay = "ok"

(***************************************************************************)
(* Actions                                                                 *)
(***************************************************************************)
CanCreate ==
  /\ Cardinality(DOMAIN store) < MaxScouts
  /\ Cardinality(DOMAIN sessions) < MaxSessions

\* POST /api/scouts/create through the middleware chain
CreateRequest(req, oc) ==
  /\ CanCreate
  /\ LET r == CreateApp(req, store, sessions, now, env, oc)
     IN /\ store' = r.store
        /\ sessions' = r.sessions
        /\ resp' = [surface |-> "rest", op |-> "create", handler |-> r.handler,
                    createRan |-> r.handler = "createScoutHandler",
                    payment |-> req.payment, invalid |-> r.invalid,
                    wrote |-> r.store # store, validArgs |-> CreateScoutRequestSchema(req.body),
                    healthy |-> AllHealthy(oc, "ok"), failure |-> FailedStep(oc),
                    resp |-> r.resp]
  /\ last' = NoLast
  /\ UNCHANGED <<now, env, mail, payClient, auth, calls, seen, poller>>

McpHttpRequest == [method |-> "POST", path |-> McpPath, origin |-> FALSE, payment |-> "none"]

\* POST /api/mcp; get_scout_status with valid arguments is a status request
McpAnswered(body, pay, oc, r) ==
  /\ CanCreate
  /\ LET isCreate == body.method = "tools/call" /\ Truthy(body.params, "name")
                       /\ body.params.name = "create_scout"
         base == [surface |-> "mcp", op |-> IF isCreate THEN "create" ELSE "other",
                  handler |-> "mcpHandler", createRan |-> FALSE, payment |-> "none",
                  invalid |-> FALSE, wrote |-> FALSE,
                  validArgs |-> CreateScoutArgsValid(body.params.arguments),
                  healthy |-> AllHealthy(oc, pay), failure |-> FailedStep(oc),
                  resp |-> <<>>]
     IN IF ~Middleware(McpHttpRequest).next
          THEN /\ resp' = Merge(base, [handler |-> Middleware(McpHttpRequest).producer,
                                       resp |-> Middleware(McpHttpRequest).resp])
               /\ UNCHANGED <<store, sessions>>
          ELSE /\ store' = r.store
               /\ sessions' = r.sessions
               /\ resp' = Merge(base, [createRan |-> r.createRan,
                                       payment |-> IF r.settled THEN "verified" ELSE "none",
                                       invalid |-> r.invalid, wrote |-> r.store # store,
                                       resp |-> r.resp])
  /\ last' = NoLast
  /\ UNCHANGED <<now, env, mail, payClient, auth, calls, seen, poller>>

McpRequest(body, pay, oc) ==
  McpAnswered(body, pay, oc, mcpHandler(body, pay, store, sessions, now, env, oc))

\* preflights, the health and root routes and unregistered paths
OtherRequest(req, ok) ==
  /\ resp' = Merge(NoResp,
       [surface |-> "rest", op |-> "other",
        handler |-> IF ~Middleware(req).next THEN Middleware(req).producer
                    ELSE Route(req.method, req.path),
        resp |-> IF ~Middleware(req).next THEN Middleware(req).resp
                 ELSE IF Route(req.method, req.path) = "healthHandler" THEN healthHandler(ok)
                 ELSE IF Route(req.method, req.path) = "root"
                   THEN [code |-> STANDARD_STATUS_CODES.SUCCESS]
                 ELSE [code |-> STANDARD_STATUS_CODES.NOT_FOUND]])
  /\ last' = NoLast
  /\ UNCHANGED <<store, sessions, now, env, mail, payClient, auth, calls, seen, poller>>

\* the provider's task finishes: finishedAt, status, output and steps are set
ProviderFinish(sid, status, output, steps) ==
  /\ sid \in DOMAIN sessions
  /\ Len(sessions[sid].tasks) > 0
  /\ ~sessions[sid].tasks[1].finished
  /\ sessions' = [sessions EXCEPT ![sid].tasks[1] =
                    [@ EXCEPT !.finished = TRUE, !.status = status, !.output = output,
                              !.steps = steps]]
  /\ last' = NoLast
  /\ UNCHANGED <<store, now, env, mail, payClient, auth, calls, resp, seen, poller>>

\* Date.now() advances
Tick ==
  /\ now < MaxClock
  /\ now' = now + 1
  /\ last' = NoLast
  /\ UNCHANGED <<store, sessions, env, mail, payClient, auth, calls, resp, seen, poller>>

(***************************************************************************)
(* The project vault secret and the keypair loaders                        *)
(*                                                                         *)
(* A secret is described by what the parsers make of its text: what        *)
(* JSON.parse yields and whether the text is the base58 encoding of a      *)
(* secret key; len is the number of bytes the text stands for.             *)
(***************************************************************************)
SecretKeyLen == 64

\* no secret, a JSON byte array, a JSON array of three bytes, a JSON object, base58 text, and a
\* text that is neither JSON nor base58
VaultKeys ==
  { [present |-> FALSE, json |-> "invalid", len |-> 0, base58 |-> FALSE],
    [present |-> TRUE, json |-> "array", len |-> SecretKeyLen, base58 |-> FALSE],
    [present |-> TRUE, json |-> "array", len |-> 3, base58 |-> FALSE],
    [present |-> TRUE, json |-> "object", len |-> 0, base58 |-> FALSE],
    [present |-> TRUE, json |-> "invalid", len |-> SecretKeyLen, base58 |-> TRUE],
    [present |-> TRUE, json |-> "invalid", len |-> 0, base58 |-> FALSE] }

Thrown(message) == [ok |-> FALSE, message |-> message]

\* JSON.parse of the secret's text
JSON_parse(key) ==
  IF key.json = "invalid" THEN Thrown("Unexpected token")
  ELSE [ok |-> TRUE, isArray |-> key.json = "array", len |-> IF key.json = "array" THEN key.len ELSE 0]

\* bs58.decode of the secret's text
bs58_decode(key) ==
  IF key.base58 THEN [ok |-> TRUE, len |-> key.len] ELSE Thrown("Non-base58 character")

\* Keypair.fromSecretKey of a byte array of the given length
fromSecretKey(len) ==
  IF len = SecretKeyLen THEN [ok |-> TRUE, keypair |-> "vault"] ELSE Thrown("bad secret key size")

\* createX402Axios: the JSON byte array first, base58 when anything in that throws
ParseKeypair(key) ==
  IF JSON_parse(key).ok /\ JSON_parse(key).isArray /\ fromSecretKey(JSON_parse(key).len).ok
  THEN fromSecretKey(JSON_parse(key).len)
  ELSE IF bs58_decode(key).ok THEN fromSecretKey(bs58_decode(key).len)
  ELSE bs58_decode(key)

\* initializePaymentClient: JSON.parse of the secret, then new Uint8Array of the value
ParseKeypairJsonOnly(key) ==
  IF JSON_parse(key).ok THEN fromSecretKey(JSON_parse(key).len) ELSE JSON_parse(key)

VaultKeyMissing_Never(key) == FALSE

\* !vaultPrivateKey
VaultKeyMissing(key) == ~key.present

\* the e-mail API of the environment c.env?.ENV || 'PREVIEW'
emailApiUrl(name) ==
  IF name = "LIVE" THEN "https://6912ea0975594657e0105644-api.poof.new"
  ELSE "https://6912ea0975594657e0105643-api.poof.new"

createX402Axios(key, name, signerOk) ==
  IF VaultKeyMissing(key) THEN Thrown("x402-axios setup failed: PROJECT_VAULT_PRIVATE_KEY not configured")
  ELSE IF ~ParseKeypair(key).ok THEN Thrown("x402-axios setup failed: " \o ParseKeypair(key).message)
  ELSE IF ~signerOk THEN Thrown("x402-axios setup failed: createSigner")
  ELSE [ok |-> TRUE, network |-> IF name = "LIVE" THEN "solana-mainnet" ELSE "solana-devnet",
        signer |-> ParseKeypair(key).keypair]

(***************************************************************************)
(* The sendEmail tool of the Result Processor, one step per await          *)
(***************************************************************************)
MaxInvocations == 2

NoMail ==
  [pc |-> "idle", n |-> 0,
   key |-> [present |-> FALSE, json |-> "invalid", len |-> 0, base58 |-> FALSE], env |-> "",
   requests |-> <<>>, payments |-> 0, outcome |-> "none", error |-> ""]

\* one request sent to the e-mail endpoint: through the payment interceptor or not, carrying a
\* payment or not, and the endpoint's reply
EmailRequest(name, gate, payment, reply) ==
  [url |-> emailApiUrl(name) \o "/api/send-email", gate |-> gate, payment |-> payment,
   reply |-> reply]

\* execute is entered: the vault secret is checked before anything else
SendEmailExecute ==
  \E key \in VaultKeys, name \in {"", "LIVE", "PREVIEW"} :
    /\ mail.pc = "idle"
    /\ mail.n < MaxInvocations
    /\ mail' = IF VaultKeyMissing(key)
               THEN [pc |-> "idle", n |-> mail.n + 1, key |-> key, env |-> name,
                     requests |-> <<>>, payments |-> 0, outcome |-> "thrown",
                     error |-> "PROJECT_VAULT_PRIVATE_KEY not configured - cannot send email"]
               ELSE [pc |-> "test", n |-> mail.n + 1, key |-> key, env |-> name,
                     requests |-> <<>>, payments |-> 0, outcome |-> "none", error |-> ""]
    /\ UNCHANGED <<store, sessions, now, env, calls, resp, last, seen, payClient, auth, poller>>

\* the plain axios.post that precedes the protected call; its failure is only logged
SendEmailTestCall ==
  \E reply \in {"200", "402", "error"} :
    /\ mail.pc = "test"
    /\ mail' = [mail EXCEPT !.pc = "setup",
                            !.requests = Append(@, EmailRequest(mail.env, FALSE, FALSE, reply))]
    /\ UNCHANGED <<store, sessions, now, env, calls, resp, last, seen, payClient, auth, poller>>

SendEmailSetup ==
  \E signerOk \in BOOLEAN :
    /\ mail.pc = "setup"
    /\ mail' = IF createX402Axios(mail.key, mail.env, signerOk).ok
               THEN [mail EXCEPT !.pc = "post"]
               ELSE [mail EXCEPT !.pc = "idle", !.outcome = "thrown",
                                 !.error = createX402Axios(mail.key, mail.env, signerOk).message]
    /\ UNCHANGED <<store, sessions, now, env, calls, resp, last, seen, payClient, auth, poller>>

\* the requests the payment interceptor sends for one post: the request itself and, when the
\* endpoint asks for payment and the payment can be built, one retry that carries it
InterceptedRequests(name, reply, payOk, retryReply) ==
  IF reply = "402" /\ payOk
  THEN <<EmailRequest(name, TRUE, FALSE, reply), EmailRequest(name, TRUE, TRUE, retryReply)>>
  ELSE <<EmailRequest(name, TRUE, FALSE, reply)>>

\* axiosWithPayment.post: a payment settles when the request that carries it is answered with
\* success; the tool returns when the last request is
SendEmailPosted(sent) ==
  /\ mail' = [mail EXCEPT
       !.pc = "idle",
       !.requests = @ \o sent,
       !.payments = @ + Cardinality({i \in DOMAIN sent : sent[i].payment /\ sent[i].reply = "200"}),
       !.outcome = IF sent[Len(sent)].reply = "200" THEN "returned" ELSE "thrown",
       !.error = IF sent[Len(sent)].reply = "200" THEN "" ELSE "Request failed"]
  /\ UNCHANGED <<store, sessions, now, env, calls, resp, last, seen, payClient, auth, poller>>

SendEmailPost ==
  \E reply \in {"200", "402", "error"}, payOk \in BOOLEAN, retryReply \in {"200", "402", "error"} :
    /\ mail.pc = "post"
    /\ SendEmailPosted(InterceptedRequests(mail.env, reply, payOk, retryReply))

(***************************************************************************)
(* The payment client of the MCP server                                    *)
(***************************************************************************)
NoPayClient ==
  [fetchWithPayment |-> FALSE, calls |-> 0,
   key |-> [present |-> FALSE, json |-> "invalid", len |-> 0, base58 |-> FALSE], deps |-> TRUE,
   result |-> "none", error |-> ""]

\* initializePaymentClient: the cached client, or a new one from the vault secret
initializePaymentClient(client, key, depsOk) ==
  IF client.fetchWithPayment THEN [client EXCEPT !.calls = @ + 1, !.result = "ok", !.error = ""]
  ELSE IF depsOk /\ key.present /\ ParseKeypairJsonOnly(key).ok
  THEN [fetchWithPayment |-> TRUE, calls |-> client.calls + 1, key |-> key, deps |-> depsOk,
        result |-> "ok", error |-> ""]
  ELSE [fetchWithPayment |-> FALSE, calls |-> client.calls + 1, key |-> key, deps |-> depsOk,
        result |-> "throw",
        error |-> "Failed to initialize MCP payment client. Install @faremeter/payment-solana@0.11.0"]

InitializePaymentClient ==
  \E key \in VaultKeys, depsOk \in BOOLEAN :
    /\ payClient.calls < MaxInvocations
    /\ payClient' = initializePaymentClient(payClient, key, depsOk)
    /\ UNCHANGED <<store, sessions, now, env, calls, resp, last, seen, mail, auth, poller>>

(***************************************************************************)
(* Tarobase authentication of a request                                    *)
(*                                                                         *)
(* A token is described by what the identity provider answers to it and by *)
(* what its payload segment decodes to; the empty token is what is left of *)
(* an Authorization header of seven characters or fewer.                   *)
(***************************************************************************)
Addresses == {"walleta", "WalletA", "walletb"}

\* String.prototype.toLowerCase on the addresses of the model
toLowerCase(a) == IF a = "WalletA" THEN "walleta" ELSE a

Tokens ==
  [idp : {"accepts", "rejects"}, payload : {"garbled", "noAddress"} \cup Addresses]
    \cup {[idp |-> "empty", payload |-> "garbled"]}

AuthRequests ==
  [authorization : [present : {TRUE}, token : Tokens]
                     \cup {[present |-> FALSE, token |-> [idp |-> "empty", payload |-> "garbled"]]},
   wallet : {""} \cup Addresses, isAdminRoute : BOOLEAN, adminApp : BOOLEAN]

AuthenticationError(message) == [ok |-> FALSE, statusCode |-> 401, message |-> message]

getAuthenticatedUser(q) ==
  IF ~q.authorization.present \/ q.wallet = ""
  THEN AuthenticationError("Authentication data not found in request")
  ELSE [ok |-> TRUE, walletAddress |-> q.wallet, tarobaseIdToken |-> q.authorization.token]

\* devApi listApps: throws without a token or when the provider does not answer 2xx
devApi(token) ==
  IF token.idp = "empty" THEN Thrown("No authentication token provided")
  ELSE IF token.idp # "accepts" THEN Thrown("Tarobase API error: 401")
  ELSE [ok |-> TRUE]

\* the first try block: the provider's verdict and the admin check
TokenCheck(q, user) ==
  IF ~devApi(user.tarobaseIdToken).ok THEN AuthenticationError("Invalid Tarobase token")
  ELSE IF q.isAdminRoute /\ ~q.adminApp THEN AuthenticationError("Admin access required")
  ELSE [ok |-> TRUE]

\* the body of the second try block: what it throws, if anything
AddressCheckBody(user) ==
  IF user.tarobaseIdToken.payload = "garbled" THEN Thrown("Invalid character")
  ELSE IF user.tarobaseIdToken.payload = "noAddress"
          \/ toLowerCase(user.tarobaseIdToken.payload) # toLowerCase(user.walletAddress)
  THEN AuthenticationError("Token address does not match provided wallet address")
  ELSE [ok |-> TRUE]

\* the second try block with its catch, which replaces whatever was thrown
AddressCheck(user) ==
  IF AddressCheckBody(user).ok THEN AddressCheckBody(user)
  ELSE AuthenticationError("Failed to verify token address")

validateTarobaseAuth(q) ==
  IF ~getAuthenticatedUser(q).ok THEN getAuthenticatedUser(q)
  ELSE IF ~TokenCheck(q, getAuthenticatedUser(q)).ok THEN TokenCheck(q, getAuthenticatedUser(q))
  ELSE IF ~AddressCheck(getAuthenticatedUser(q)).ok THEN AddressCheck(getAuthenticatedUser(q))
  ELSE getAuthenticatedUser(q)

NoAuth == [req |-> <<>>, result |-> <<>>]

ValidateTarobaseAuth ==
  \E q \in AuthRequests :
    /\ auth' = [req |-> q, result |-> validateTarobaseAuth(q)]
    /\ UNCHANGED <<store, sessions, now, env, calls, resp, last, seen, mail, payClient, poller>>

(***************************************************************************)
(* Request validation of the connection auth helpers                       *)
(***************************************************************************)
\* replace('Bearer ', '') on the Authorization texts of the model; "" is an absent header
StripBearer(h) == IF h = "Bearer abc" THEN "abc" ELSE IF h = "Bearer " THEN "" ELSE h

\* validateRequest: a plain-text 401 Response, or the request itself (no response)
validateRequest(type, request) ==
  IF type = "jwt"
       /\ (IF request.tokenParam # "" THEN request.tokenParam
           ELSE StripBearer(request.authorization)) = ""
  THEN [code |-> 401, text |-> "Unauthorized: Missing token"]
  ELSE IF type = "tarobase"
       /\ (IF request.walletHeader # "" THEN request.walletHeader ELSE request.walletParam) = ""
  THEN [code |-> 401, text |-> "Unauthorized: Missing wallet address"]
  ELSE <<>>

\* a jwt connection varies in its token, a tarobase connection in its wallet address; a
\* request that passes is handed on without a response
ValidateRequest ==
  \E in \in ({"jwt"} \X [tokenParam : {"", "abc"}, authorization : {"", "Bearer ", "Bearer abc"},
                        walletHeader : {""}, walletParam : {""}])
           \cup ({"tarobase", "public"} \X [tokenParam : {""}, authorization : {""},
                                            walletHeader : {"", "walleta"},
                                            walletParam : {"", "walleta"}]) :
    /\ resp' = IF validateRequest(in[1], in[2]) = <<>> THEN NoResp
               ELSE Merge(NoResp, [surface |-> "connect", op |-> "connect",
                                   handler |-> "validateRequest",
                                   resp |-> validateRequest(in[1], in[2])])
    /\ last' = NoLast
    /\ UNCHANGED <<store, sessions, now, env, mail, payClient, auth, calls, seen, poller>>

(***************************************************************************)
(* The scout details page: its record and its status-polling interval      *)
(***************************************************************************)
\* The page before its record arrives: the scout it shows, the status of the scout state it holds,
\* whether a polling interval is set, whether a status response with a terminal
\* status was handled, and whether a refresh was issued after that.
NoPoller == [id |-> "", scout |-> "none", interval |-> FALSE, observed |-> FALSE, after |-> FALSE]

\* The interval callback after its status call: nothing without an ok response;
\* otherwise the record is re-read, setScout re-runs the polling effect, which
\* clears the interval and sets a new one for a pending or running record, and
\* clearInterval is reached for a terminal status unless the re-read threw.
PollReceive(p, l, st, readOc) ==
  IF l.call = 0 \/ l.resp.code # 200 THEN p
  ELSE LET newStatus == l.resp.data.status
           handled == [p EXCEPT !.observed = @ \/ newStatus \in Terminal]
       IN IF readOc = "throw" THEN handled
          ELSE IF readOc = "null" \/ ~Found(st, l.scoutId)
            THEN [handled EXCEPT !.interval = @ /\ newStatus \notin Terminal]
          ELSE [handled EXCEPT !.scout = st[l.scoutId].status,
                               !.interval = st[l.scoutId].status \in {"pending", "running"}]

\* fetchScout: the one-time read of the record when the page opens
PollerMount ==
  \E id \in DOMAIN store :
    /\ poller.scout = "none"
    /\ poller' = [poller EXCEPT !.id = id, !.scout = store[id].status,
                                !.interval = store[id].status \in {"pending", "running"}]
    /\ last' = NoLast
    /\ UNCHANGED <<store, sessions, now, env, mail, payClient, auth, calls, resp, seen>>

\* the interval fires: the page calls the status route, one call at a time
PollerTick ==
  \E readOc \in {"ok", "throw"}, pageRead \in {"ok", "null", "throw"} :
    /\ poller.interval
    /\ RefreshStart(1, poller.id, readOc)
    /\ poller' = PollReceive([poller EXCEPT !.after = @ \/ poller.observed], last', store',
                             pageRead)

\* the status handler goes on to its answer, which the interval callback handles
PollAnswer(oc, writeOc) ==
  \E detailOc \in CallOutcomes, llm \in LlmOutcomes, pageRead \in {"ok", "null", "throw"} :
    /\ \/ RefreshFetch(1, oc, detailOc, llm)
       \/ RefreshWriteRunning(1, writeOc)
       \/ RefreshWriteTerminal(1, writeOc)
    /\ poller' = PollReceive(poller, last', store', pageRead)

Envs == [BROWSER_USE_API_KEY : BOOLEAN, OPENAI_API_KEY : BOOLEAN]

Init ==
  /\ store = <<>>
  /\ sessions = <<>>
  /\ now = 0
  /\ env \in Envs
  /\ calls = [c \in 1..MaxCalls |-> IdleCall]
  /\ resp = NoResp
  /\ last = NoLast
  /\ seen = [id \in ScoutIdPool |-> NotSeen]
  /\ mail = NoMail
  /\ payClient = NoPayClient
  /\ auth = NoAuth
  /\ poller = NoPoller

Create == \E in \in CreateInputs : CreateRequest(in[1], in[2])

Mcp == \E in \in McpInputs : McpRequest(in[1], in[2], in[3])

Other == \E req \in OtherRequests, ok \in BOOLEAN : OtherRequest(req, ok)

Start == \E c \in 1..MaxCalls, id \in ScoutIdPool, readOc \in {"ok", "throw"} :
           RefreshStart(c, id, readOc) /\ UNCHANGED poller

Fetch == \E c \in 1..MaxCalls, oc \in CallOutcomes, detailOc \in CallOutcomes, llm \in LlmOutcomes :
           RefreshFetch(c, oc, detailOc, llm) /\ UNCHANGED poller

WriteRunning == \E c \in 1..MaxCalls, writeOc \in StoreOutcomes :
                  RefreshWriteRunning(c, writeOc) /\ UNCHANGED poller

WriteTerminal == \E c \in 1..MaxCalls, writeOc \in StoreOutcomes :
                   RefreshWriteTerminal(c, writeOc) /\ UNCHANGED poller

Finish == \E sid \in DOMAIN sessions, status \in TaskStatuses, output \in Outputs, steps \in StepLists :
            ProviderFinish(sid, status, output, steps)

\* the scout lifecycle: creation, the provider and concurrent status refreshes
Next == Create \/ Start \/ Fetch \/ WriteRunning \/ WriteTerminal \/ Finish \/ Tick

Spec == Init /\ [][Next]_vars

\* one client polling: at most one status refresh in flight
Poll == \E id \in ScoutIdPool, readOc \in {"ok", "throw"} :
          RefreshStart(1, id, readOc) /\ UNCHANGED poller

\* the HTTP and tool surface: every kind of request, status refreshes one at a time
SurfaceNext ==
  Create \/ Mcp \/ Other \/ ValidateRequest \/ Poll \/ Fetch \/ WriteRunning \/ WriteTerminal
    \/ Finish \/ Tick

SurfaceSpec == Init /\ [][SurfaceNext]_vars

\* one client polling a scout whose calls may never be answered
HangNext ==
  Create \/ Poll \/ Fetch \/ RefreshBlocked \/ WriteRunning \/ WriteTerminal \/ Finish

\* a handler that can take its next step takes it
HangSpec ==
  Init /\ [][HangNext]_vars /\ WF_vars(Fetch) /\ WF_vars(WriteRunning) /\ WF_vars(WriteTerminal)

\* the details page polling its scout
PollNext ==
  \/ Create
  \/ PollerMount
  \/ PollerTick
  \/ \E oc \in CallOutcomes, writeOc \in StoreOutcomes : PollAnswer(oc, writeOc)
  \/ Finish

\* The interval keeps firing and the handler keeps stepping; provider status
\* calls and record-store writes succeed again and again.
PollSpec ==
  /\ Init
  /\ [][PollNext]_vars
  /\ WF_vars(PollerTick)
  /\ SF_vars(PollAnswer("ok", "ok"))

\* the server-initiated payments: the sendEmail tool and the MCP payment client
PaymentNext ==
  SendEmailExecute \/ SendEmailTestCall \/ SendEmailSetup \/ SendEmailPost
    \/ InitializePaymentClient

PaymentSpec == Init /\ [][PaymentNext]_vars

\* the authentication helper, one request after another
AuthSpec == Init /\ [][ValidateTarobaseAuth]_vars

(***************************************************************************)
(* Properties                                                              *)
(***************************************************************************)
Rank(status) == IF status = "pending" THEN 0 ELSE IF status = "running" THEN 1 ELSE 2

NonEmpty(o, k) == Truthy(o, k)

TaskOf(rec) == sessions[rec.sessionId].tasks[1]

StandardCodes == {200, 400, 401, 404, 500}

\* C1: across any interleaving of refresh calls on one scout the persisted
\* status never moves backward along pending -> running -> {completed | error},
\* and a completed or error record keeps its status in every later write.
C1_StatusNeverMovesBackward ==
  [][\A id \in DOMAIN store :
       /\ Rank(store'[id].status) >= Rank(store[id].status)
       /\ store[id].status \in Terminal => store'[id].status = store[id].status]_vars

\* C2: every refresh of a scout whose persisted status is completed or error
\* returns the same result, error, screenshots and completedAt as every other
\* refresh of that terminal scout, writes nothing and calls the provider zero times.
C2_TerminalRefreshIdentical ==
  last.branch = "terminal" =>
    /\ Pick(last.resp.data, ResultFields) = seen[last.scoutId].data
    /\ last.nProv = 0
    /\ last.nWrite = 0
    /\ ~last.wrote

\* C3 as stated: every completed or error record has exactly one of result and
\* error non-empty.
C3_ExactlyOneOfResultError ==
  \A id \in DOMAIN store :
    store[id].status \in Terminal =>
      (NonEmpty(store[id], "result") /\ ~NonEmpty(store[id], "error"))
        \/ (~NonEmpty(store[id], "result") /\ NonEmpty(store[id], "error"))

\* C3 as amended: a terminal record never has both result and error non-empty;
\* an error record has a non-empty error and no result; a completed record has
\* no error, and a non-empty result whenever the provider task's output is
\* non-empty (an empty output leaves both fields empty).
C3_TerminalFieldsExclusive ==
  \A id \in DOMAIN store :
    /\ store[id].status = "error" =>
         NonEmpty(store[id], "error") /\ ~NonEmpty(store[id], "result")
    /\ store[id].status = "completed" =>
         /\ ~NonEmpty(store[id], "error")
         /\ Has(store[id], "result")
         /\ TaskOf(store[id]).output # "" => NonEmpty(store[id], "result")

C3_Witness ==
  \E id \in DOMAIN store :
    /\ store[id].status = "completed"
    /\ store[id].result = ""
    /\ TaskOf(store[id]).finished

\* C4: every scout record persisted by create has scoutId, sessionId and liveUrl
\* populated, whatever the provider answers to session and task creation, and
\* its session holds the created task; a create request that is answered with
\* an error, as when task creation fails after session creation, writes no record.
C4_PersistedScoutsComplete ==
  /\ \A id \in DOMAIN store :
       /\ id # ""
       /\ NonEmpty(store[id], "sessionId")
       /\ NonEmpty(store[id], "liveUrl")
       /\ store[id].sessionId \in DOMAIN sessions
       /\ Len(sessions[store[id].sessionId].tasks) > 0
  /\ resp.op = "create" /\ resp.resp.code # 200 => ~resp.wrote
  /\ resp.op = "create" /\ resp.wrote =>
       /\ resp.resp.code = 200
       /\ resp.resp.data.scoutId \in DOMAIN store

C6_FallbackKeepsPersisted ==
  last.branch = "fallback" =>
    /\ last.resp.code = 200
    /\ last.resp.success
    /\ last.resp.data = ScoutResponse(last.read, PersistedKeys)
    /\ last.resp.data.status = last.read.status
    /\ last.resp.data.status \in {"pending", "running"}
    /\ last.nWrite = 0
    /\ ~last.wrote

C6_Witness ==
  /\ last.branch = "fallback"
  /\ last.read.status = "running"
  /\ last.nProv = 1

\* C7: a tools/call of create_scout with valid name, instructions and
\* authToken, whose payment settles and whose provider and store calls succeed,
\* ends with a persisted pending scout and a non-error tool response.
C7_McpCreatePersists ==
  (/\ resp.surface = "mcp"
   /\ resp.op = "create"
   /\ resp.validArgs
   /\ resp.healthy
   /\ env.BROWSER_USE_API_KEY)
  => /\ resp.resp.code = 200
     /\ resp.wrote
     /\ \E id \in DOMAIN store : store[id].status = "pending"

C9_ValidationFailuresAre400 ==
  resp.op = "create" /\ resp.invalid => resp.resp.code = 400

\* C10: two concurrent refresh calls on the same active scout whose provider
\* task has finished return the same status and, when completed, the same
\* result text.
C10_ConcurrentFinishSameResult ==
  [][(/\ last.branch = "finished"
      /\ last'.branch = "finished"
      /\ last.scoutId = last'.scoutId
      /\ last.call # last'.call)
     => /\ last'.resp.data.status = last.resp.data.status
        /\ last.resp.data.status = "completed" =>
             last'.resp.data.result = last.resp.data.result]_vars

C12_ProcessorFailureFallsBack ==
  (/\ last.branch = "finished"
   /\ Truthy(last.read, "resultAction")
   /\ last.task.status \notin {"failed", "error"}
   /\ last.llm = "throw" \/ ~env.OPENAI_API_KEY)
  => /\ last.resp.code = 200
     /\ last.resp.success
     /\ last.resp.data.status = "completed"
     /\ last.resp.data.result = last.task.output
     /\ last.wrote =>
          /\ store[last.scoutId].status = "completed"
          /\ store[last.scoutId].result = last.task.output

C12_Witness ==
  /\ last.branch = "finished"
  /\ Truthy(last.read, "resultAction")
  /\ last.llm = "throw"
  /\ last.task.output # ""
  /\ last.resp.data.result = last.task.output
  /\ last.wrote

\* C13: every successful status response for a terminal scout carries the
\* scout's persisted screenshots, on the refresh that makes it terminal and on
\* every later refresh.
C13_TerminalResponsesCarryScreenshots ==
  /\ last.branch = "finished" /\ Has(store[last.scoutId], "screenshots") /\ last.wrote
       => Has(last.resp.data, "screenshots")
  /\ last.branch = "terminal" /\ Has(last.read, "screenshots")
       => Has(last.resp.data, "screenshots")

\* C14: when session creation, task creation or persistence fails during create,
\* the answer is an internal error (500) without a success payload and no scout
\* record is written.
C14_CreateFailureAborts ==
  (/\ resp.op = "create"
   /\ resp.createRan
   /\ ~resp.invalid
   /\ env.BROWSER_USE_API_KEY
   /\ resp.failure # "none")
  => /\ resp.resp.code = 500
     /\ ~resp.resp.success
     /\ ~Has(resp.resp, "data")
     /\ resp.resp.error.code = "INTERNAL_ERROR"
     /\ ~resp.wrote

C14_Witness ==
  /\ resp.op = "create"
  /\ resp.createRan
  /\ resp.failure = "store"
  /\ resp.resp.code = 500
  /\ sessions # <<>>
  /\ ~resp.wrote

\* C15: a refresh for a scoutId without a record answers not found (404), calls
\* the provider zero times and writes nothing.
C15_UnknownScoutNotFound ==
  /\ last.branch = "notfound" =>
       /\ last.resp.code = 404
       /\ ~last.resp.success
       /\ last.resp.error.code = "RESOURCE_NOT_FOUND"
       /\ last.nProv = 0
       /\ last.nWrite = 0
       /\ ~last.wrote
  /\ last.call # 0 /\ last.scoutId \notin DOMAIN store =>
       last.branch \in {"notfound", "crash"}

C15_Witness ==
  /\ last.branch = "notfound"
  /\ last.scoutId \notin DOMAIN store
  /\ last.resp.code = 404

\* C16: every request a sendEmail invocation sends to the e-mail endpoint goes through the
\* payment interceptor, and one invocation settles at most one payment (the statement as the
\* spec makes it)
C16_EmailOnlyThroughPaymentGate ==
  /\ \A i \in DOMAIN mail.requests : mail.requests[i].gate
  /\ mail.payments <= 1

\* C17: when the vault secret is absent the sendEmail tool throws before any request is sent
\* and before any payment; the invocation is never reported as a success
C17_NoVaultKeyNoEmail ==
  (mail.n > 0 /\ ~mail.key.present) =>
    /\ mail.pc = "idle"
    /\ mail.outcome = "thrown"
    /\ mail.error = "PROJECT_VAULT_PRIVATE_KEY not configured - cannot send email"
    /\ mail.requests = <<>>
    /\ mail.payments = 0

C17_Witness == mail.n > 0 /\ ~mail.key.present /\ mail.outcome = "thrown"

\* C20: both server-initiated payment paths load the keypair from a secret given as a JSON
\* byte array and from a secret given as base58 text: with such a secret neither the MCP
\* payment client nor the e-mail tool's axios setup fails on the key (the statement as the
\* spec makes it)
C20_BothPathsLoadEitherFormat ==
  /\ (payClient.result # "none" /\ payClient.deps /\ payClient.key.len = 64
        /\ (payClient.key.json = "array" \/ payClient.key.base58))
       => payClient.result = "ok"
  /\ (mail.key.len = 64 /\ (mail.key.json = "array" \/ mail.key.base58))
       => mail.error \notin {"x402-axios setup failed: Non-base58 character",
                             "x402-axios setup failed: bad secret key size"}

\* C19: validateTarobaseAuth accepts only a request with both headers, a token the identity
\* provider accepts and a token address equal to the wallet header; every other request is
\* rejected with a 401 whose message is the documented one for its case: missing
\* authentication data, invalid token, address mismatch (the statement as the spec makes it)
C19_RejectionsCarryDocumentedMessage ==
  auth.req # <<>> =>
    /\ auth.result.ok =>
         /\ auth.req.authorization.present
         /\ auth.req.wallet # ""
         /\ auth.req.authorization.token.idp = "accepts"
         /\ auth.req.authorization.token.payload \in Addresses
         /\ toLowerCase(auth.req.authorization.token.payload) = toLowerCase(auth.req.wallet)
    /\ ~auth.result.ok =>
         /\ auth.result.statusCode = 401
         /\ (~auth.req.authorization.present \/ auth.req.wallet = "")
              => auth.result.message = "Authentication data not found in request"
         /\ (auth.req.authorization.present /\ auth.req.wallet # ""
               /\ auth.req.authorization.token.idp # "accepts")
              => auth.result.message = "Invalid Tarobase token"
         /\ (auth.req.authorization.present /\ auth.req.wallet # ""
               /\ auth.req.authorization.token.idp = "accepts"
               /\ ~(auth.req.isAdminRoute /\ ~auth.req.adminApp)
               /\ auth.req.authorization.token.payload \in Addresses
               /\ toLowerCase(auth.req.authorization.token.payload) # toLowerCase(auth.req.wallet))
              => auth.result.message = "Token address does not match provided wallet address"

\* the standard envelope: success=false with error{code,message} on an error status,
\* success=true with data on 200
Enveloped(r) ==
  /\ r.code >= 400 => (Has(r, "success") /\ ~r.success /\ Has(r, "error")
                        /\ Has(r.error, "code") /\ Has(r.error, "message"))
  /\ r.code = 200 => (Has(r, "success") /\ r.success /\ Has(r, "data"))

\* C18: every error response of the server surface is the standard envelope with
\* success=false and error{code,message}, and every success response the envelope with
\* success=true and data; no endpoint answers in another shape. The payment challenge and the
\* CORS preflight answers, which the middleware produces, are left aside (the statement as the
\* spec makes it)
C18_EveryResponseEnveloped ==
  /\ (resp.surface \in {"rest", "connect"} /\ resp.resp # <<>>
        /\ resp.handler \notin {"x402Middleware", "corsMiddleware"})
       => Enveloped(resp.resp)
  /\ last.resp # <<>> => Enveloped(last.resp)

\* C22: a refresh that finds the first provider task without a finish time answers 200 with
\* status running and neither result nor error; it makes no store write when the status it
\* read was already running, and otherwise one write that changes nothing but the status,
\* which becomes running
C22_RunningBranch ==
  [][last'.branch = "running" =>
       /\ last'.resp.code = 200
       /\ last'.resp.success
       /\ last'.resp.data.status = "running"
       /\ ~Has(last'.resp.data, "result")
       /\ ~Has(last'.resp.data, "error")
       /\ IF last'.read.status = "running"
            THEN last'.nWrite = 0 /\ store' = store
            ELSE /\ last'.nWrite = 1
                 /\ DOMAIN store' = DOMAIN store
                 /\ \A id \in DOMAIN store :
                      /\ DOMAIN store'[id] = DOMAIN store[id]
                      /\ \A k \in DOMAIN store[id] \ {"status"} : store'[id][k] = store[id][k]
                      /\ store'[id].status # store[id].status
                           => (id = last'.scoutId /\ store'[id].status = "running")]_vars

C22_Witness ==
  /\ last.branch = "running"
  /\ last.read.status = "pending"
  /\ last.wrote
  /\ store[last.scoutId].status = "running"

\* C23: a refresh that answers with a terminal status after working through a finished task
\* answers with what is stored: the record's status, result, error and completedAt are those
\* of the response (the statement as the spec makes it)
C23_TerminalReportedOnlyIfPersisted ==
  last.branch = "finished" =>
    /\ store[last.scoutId].status = last.resp.data.status
    /\ Pick(store[last.scoutId], {"result", "error", "completedAt"})
         = Pick(last.resp.data, {"result", "error", "completedAt"})

\* C24: a refresh of a finished task whose task-detail call fails answers with the terminal
\* status, its result or error and completedAt and without a screenshots field; the write it
\* makes, when it takes effect, sets exactly that status, result or error and completedAt and
\* no screenshots
C24_DetailFailureIsNotFatal ==
  [][(last'.branch = "finished" /\ last'.detail = "failed") =>
       /\ last'.resp.code = 200
       /\ last'.resp.data.status \in {"completed", "error"}
       /\ Has(last'.resp.data, "result") # Has(last'.resp.data, "error")
       /\ Has(last'.resp.data, "completedAt")
       /\ ~Has(last'.resp.data, "screenshots")
       /\ last'.nWrite = 1
       /\ store' # store =>
            store' = [store EXCEPT ![last'.scoutId] =
                        Merge(@, Pick(last'.resp.data,
                                      {"status", "result", "error", "completedAt"}))]]_vars

C24_Witness ==
  /\ last.branch = "finished"
  /\ last.detail = "failed"
  /\ last.task.steps # <<>>
  /\ last.wrote
  /\ store[last.scoutId].status = "completed"
  /\ ~Has(store[last.scoutId], "screenshots")

\* C25: every refresh invocation that has started eventually returns a response, whatever the
\* calls it awaits do (the statement as the spec makes it)
C25_EveryInvocationReturns ==
  \A c \in 1..MaxCalls : (calls[c].pc # "idle") ~> (calls[c].pc = "idle")

\* C26: for each scout, at most one of the refresh calls in flight has run the Result
\* Processor: two refreshes of one scout never both run it (the statement as the spec makes
\* it, for calls that overlap)
C26_ProcessorRunsInOneCall ==
  \A id \in ScoutIdPool :
    Cardinality({c \in 1..MaxCalls : calls[c].scoutId = id /\ calls[c].ranLLM}) <= 1

\* C27: every create request with a valid body whose payment the gate accepted, made
\* directly or by the create_scout tool, leaves a persisted scout record and is not answered
\* with an error (the statement as the spec makes it)
C27_PaidCreatePersists ==
  (resp.op = "create" /\ resp.payment = "verified" /\ resp.validArgs) =>
    /\ resp.wrote
    /\ resp.resp.code = 200

\* C28: every stored record carries completedAt exactly when its status is completed or
\* error, then with completedAt >= startedAt, and a pending or running record carries neither
\* result nor error (the statement as the spec makes it)
C28_CompletedAtIffTerminal ==
  \A id \in DOMAIN store :
    /\ Has(store[id], "completedAt") <=> store[id].status \in {"completed", "error"}
    /\ Has(store[id], "completedAt") => store[id].completedAt >= store[id].startedAt
    /\ store[id].status \in {"pending", "running"}
         => ~Has(store[id], "result") /\ ~Has(store[id], "error")

\* C29: no step, and so no refresh call on any path, changes the userId, name, instructions,
\* resultAction, sessionId, liveUrl or startedAt of a stored record or removes the record
C29_RefreshKeepsIdentityFields ==
  [][\A id \in DOMAIN store :
       /\ id \in DOMAIN store'
       /\ Pick(store'[id], {"userId", "name", "instructions", "resultAction", "sessionId",
                            "liveUrl", "startedAt"})
            = Pick(store[id], {"userId", "name", "instructions", "resultAction", "sessionId",
                               "liveUrl", "startedAt"})
       /\ DOMAIN store'[id] \ DOMAIN store[id]
            \subseteq {"result", "error", "completedAt", "screenshots"}]_vars

C29_Witness ==
  /\ last.branch = "finished"
  /\ last.wrote
  /\ store[last.scoutId].completedAt > store[last.scoutId].startedAt
  /\ store[last.scoutId].startedAt = last.read.startedAt
  /\ Has(store[last.scoutId], "screenshots")

\* C30: while the details page polls a pending or running scout whose provider task has
\* a finish time, the stored record eventually becomes completed or error, and the page
\* issues no status refresh after it has handled a response with a terminal status (the
\* statement as the spec makes it)
C30_PollingReachesTerminalAndStops ==
  /\ \A id \in ScoutIdPool :
       (/\ poller.id = id /\ poller.interval
        /\ Found(store, id) /\ store[id].status \in {"pending", "running"}
        /\ Has(store[id], "sessionId") /\ store[id].sessionId \in DOMAIN sessions
        /\ IsCompleted(sessions[store[id].sessionId].tasks))
         ~> (Found(store, id) /\ store[id].status \in Terminal)
  /\ [](~poller.after)

\* C21: the error message of a failed tools/call does not carry the bearer authToken
\* that was passed as a tool argument (the statement as the spec makes it; the model
\* holds no other secret value in a response)
C21_NoSecretInResponses ==
  (resp.surface = "mcp" /\ resp.handler = "mcpHandler" /\ resp.resp.code = 500)
    => ~Has(resp.resp.error.message[3], "authToken")

====
